---- MODULE Spec2Model ----
(***************************************************************************)
(* Model of scripts/import_transcripts.py: process_and_save().             *)
(*                                                                         *)
(* Python strings are sequences of code points.  A Python value read from  *)
(* a row is a tagged record [t, v]: t is "absent" (the column is not in    *)
(* the row), "null" (None), "str" (v = the code points) or "int" (v =      *)
(* <<n>>, a value that is not a string).  A row is the dict df.to_dicts()  *)
(* returns, its column names already lower-cased.                          *)
(***************************************************************************)
EXTENDS Integers, Sequences, FiniteSets, TLC

VARIABLES
    pc,                  \* position in process_and_save
    run,                 \* 1 = first invocation, 2 = re-invocation on the same input
    fi,                  \* index into FILES of the partition being processed
    df,                  \* rows of the loaded partition (df.to_dicts())
    ri,                  \* number of rows of df already iterated
    transcript_registry, \* insertion-ordered dict: sequence of [k |-> key, v |-> list]
    total_count,         \* running total-row counter
    wi,                  \* number of registry items already visited by the save loop
    disk,                \* files under OUTPUT_DIR: sequence of [path, doc]
    out,                 \* lines printed to standard output
    parts,               \* what each remote partition served: [ok, rows] per file
    regAtLoad,           \* the registry when the current partition's try block began
    totalAtLoad,         \* the counter when the current partition's try block began
    regAtSave,           \* the registry when the save loop began
    disk1,               \* the output directory as the first invocation left it
    disk0                \* the output directory as the first invocation found it

vars == <<pc, run, fi, df, ri, transcript_registry, total_count, wi, disk, out,
          parts, regAtLoad, totalAtLoad, regAtSave, disk1, disk0>>

-----------------------------------------------------------------------------
(* Bounds *)

MaxRows == 3         \* rows served by all partitions of one invocation together
MaxContentRows == 1  \* the same, where the rows differ in their content fields

(* Program constants *)

NumFiles == 3     \* len(FILES)
Indent == 2       \* json.dump(..., indent=2)

-----------------------------------------------------------------------------
(* Python values *)

Absent == [t |-> "absent", v |-> <<>>]
None == [t |-> "null", v |-> <<>>]
Str(s) == [t |-> "str", v |-> s]
Num(n) == [t |-> "int", v |-> <<n>>]

\* bool(x)
Truthy(x) ==
    CASE x.t = "str" -> Len(x.v) > 0
      [] x.t = "int" -> x.v[1] # 0
      [] OTHER -> FALSE

\* row.get(key, default)
Get(row, key, default) == IF row[key].t = "absent" THEN default ELSE row[key]

\* a or b
PyOr(a, b) == IF Truthy(a) THEN a ELSE b

RECURSIVE Digits(_)
Digits(n) == IF n < 10 THEN <<48 + n>> ELSE Digits(n \div 10) \o <<48 + (n % 10)>>

\* str(x)
PyStr(x) ==
    CASE x.t = "str" -> x.v
      [] x.t = "int" -> Digits(x.v[1])
      [] OTHER -> <<78, 111, 110, 101>>

-----------------------------------------------------------------------------
(* String methods, on code points *)

IsSpace(c) == c \in {9, 10, 11, 12, 13, 28, 29, 30, 31, 32}
IsLower(c) == c \in 97..122
IsAlnum(c) == c \in 48..57 \/ c \in 65..90 \/ c \in 97..122

\* s.upper()
upper(s) == [i \in 1..Len(s) |-> IF IsLower(s[i]) THEN s[i] - 32 ELSE s[i]]

RECURSIVE lstrip(_)
lstrip(s) == IF s # <<>> /\ IsSpace(Head(s)) THEN lstrip(Tail(s)) ELSE s

RECURSIVE rstrip(_)
rstrip(s) ==
    IF s # <<>> /\ IsSpace(s[Len(s)]) THEN rstrip(SubSeq(s, 1, Len(s) - 1)) ELSE s

\* s.strip()
strip(s) == rstrip(lstrip(s))

\* "".join([c for c in ticker if c.isalnum()])
SafeTicker(ticker) == SelectSeq(ticker, IsAlnum)

\* a < b for str: lexicographic on code points
RECURSIVE StrLess(_, _)
StrLess(a, b) ==
    IF b = <<>> THEN FALSE
    ELSE IF a = <<>> THEN TRUE
    ELSE IF Head(a) # Head(b) THEN Head(a) < Head(b)
    ELSE StrLess(Tail(a), Tail(b))

-----------------------------------------------------------------------------
(* The transcript record and the registry *)

OUTPUT_DIR == <<98, 97, 116, 99, 104, 95, 100, 97, 116, 97, 47,
                116, 114, 97, 110, 115, 99, 114, 105, 112, 116, 115>>
Unknown == <<85, 110, 107, 110, 111, 119, 110>>
Source == <<103, 108, 111, 112, 97, 114, 100, 111, 47, 115, 112, 53, 48, 48, 45,
            101, 97, 114, 110, 105, 110, 103, 115, 45, 116, 114, 97, 110, 115,
            99, 114, 105, 112, 116, 115>>

\* ticker.upper().strip()
Canon(ticker) == strip(upper(ticker))

\* row.get('transcript') or row.get('text') or row.get('content', '')
Content(row) ==
    PyOr(PyOr(Get(row, "transcript", None), Get(row, "text", None)),
         Get(row, "content", Str(<<>>)))

\* the dict built for one row
Transcript(row, ticker) ==
    [ticker |-> Str(ticker),
     company_name |-> Get(row, "title", Str(<<>>)),
     date |-> Str(PyStr(Get(row, "date", Str(<<>>)))),
     content |-> Content(row),
     fiscal_quarter |-> Str(Unknown),
     source |-> Str(Source)]

Keys(reg) == {reg[i].k : i \in 1..Len(reg)}

\* transcript_registry[ticker], or the empty list for a key not in it
Lookup(reg, k) ==
    IF k \in Keys(reg)
    THEN reg[CHOOSE i \in 1..Len(reg) : reg[i].k = k].v
    ELSE <<>>

\* a registry that drops a record equal to one its list already holds
RegAppendDedup(reg, k, t) ==
    IF k \in Keys(reg)
    THEN [i \in 1..Len(reg) |->
            IF reg[i].k = k /\ \A j \in 1..Len(reg[i].v) : reg[i].v[j] # t
            THEN [reg[i] EXCEPT !.v = Append(@, t)] ELSE reg[i]]
    ELSE Append(reg, [k |-> k, v |-> <<t>>])

\* if ticker not in registry: registry[ticker] = []; registry[ticker].append(t)
RegAppend(reg, k, t) ==
    IF k \in Keys(reg)
    THEN [i \in 1..Len(reg) |->
            IF reg[i].k = k THEN [reg[i] EXCEPT !.v = Append(@, t)] ELSE reg[i]]
    ELSE Append(reg, [k |-> k, v |-> <<t>>])

\* a row loop that counts a row before it looks at the ticker
RowStepCountAll(reg, total, row) ==
    LET ticker == Get(row, "ticker", None) IN
    IF ~Truthy(ticker)
    THEN [raised |-> FALSE, reg |-> reg, total |-> total + 1]
    ELSE IF ticker.t # "str"
    THEN [raised |-> TRUE, reg |-> reg, total |-> total + 1]
    ELSE [raised |-> FALSE,
          reg |-> RegAppend(reg, Canon(ticker.v), Transcript(row, Canon(ticker.v))),
          total |-> total + 1]

\* what one iteration of the row loop does to (registry, total_count)
RowStep(reg, total, row) ==
    LET ticker == Get(row, "ticker", None) IN
    IF ~Truthy(ticker)
    THEN [raised |-> FALSE, reg |-> reg, total |-> total]
    ELSE IF ticker.t # "str"
    THEN [raised |-> TRUE, reg |-> reg, total |-> total]
    ELSE [raised |-> FALSE,
          reg |-> RegAppend(reg, Canon(ticker.v), Transcript(row, Canon(ticker.v))),
          total |-> total + 1]

-----------------------------------------------------------------------------
(* The save loop's helpers *)

\* x placed into a list already ordered by date descending, after every
\* element whose date is >= x's (list.sort is stable, also with reverse=True)
RECURSIVE InsertDesc(_, _)
InsertDesc(sorted, x) ==
    IF sorted = <<>> THEN <<x>>
    ELSE IF StrLess(Head(sorted).date.v, x.date.v) THEN <<x>> \o sorted
    ELSE <<Head(sorted)>> \o InsertDesc(Tail(sorted), x)

RECURSIVE SortFrom(_, _)
SortFrom(sorted, rest) ==
    IF rest = <<>> THEN sorted ELSE SortFrom(InsertDesc(sorted, Head(rest)), Tail(rest))

\* a sort without reverse=True
SortByDateAsc(transcripts) ==
    LET d == SortFrom(<<>>, transcripts) IN
    [i \in 1..Len(d) |-> d[Len(d) + 1 - i]]

\* transcripts.sort(key=lambda x: x['date'], reverse=True)
SortByDateDesc(transcripts) == SortFrom(<<>>, transcripts)

\* os.path.join(OUTPUT_DIR, f"{safe_ticker}.json")
FilePath(safe_ticker) == OUTPUT_DIR \o <<47>> \o safe_ticker \o <<46, 106, 115, 111, 110>>

\* the document json.dump(transcripts, f, indent=2) writes
JsonDump(transcripts) == [complete |-> TRUE, indent |-> Indent, items |-> transcripts]

\* what is left of the file when the write raises after n items
Truncated(transcripts, n) ==
    [complete |-> FALSE, indent |-> Indent, items |-> SubSeq(transcripts, 1, n)]

\* open(file_path, 'a'): the items are added to those the file holds
WriteFileAppend(d, path, doc) ==
    [p \in DOMAIN d \cup {path} |->
        IF p # path THEN d[p]
        ELSE IF path \in DOMAIN d THEN [doc EXCEPT !.items = d[path].items \o @]
        ELSE doc]

\* open(file_path, 'w') followed by the dump: the file holds doc and nothing else
WriteFile(d, path, doc) ==
    [p \in DOMAIN d \cup {path} |-> IF p = path THEN doc ELSE d[p]]

-----------------------------------------------------------------------------
(* Inputs *)

AAPL == <<65, 65, 80, 76>>
BRKB == <<66, 82, 75, 66>>
D2022 == <<50, 48, 50, 50, 45, 49, 49, 45, 51, 48>>   \* "2022-11-30"
D2023 == <<50, 48, 50, 51, 45, 48, 49, 45, 48, 49>>   \* "2023-01-01"
D2024 == <<50, 48, 50, 52, 45, 48, 54, 45, 49, 53>>   \* "2024-06-15"

\* ticker values: absent, None, "", " ", " aapl ", "AAPL", "Aapl", 7
CanonTickers ==
    {Absent, None, Str(<<>>), Str(<<32>>), Str(<<32, 97, 97, 112, 108, 32>>),
     Str(AAPL), Str(<<65, 97, 112, 108>>), Num(7)}

\* ticker values: "BRK.B", "BRKB", "."
FileTickers == {Str(<<66, 82, 75, 46, 66>>), Str(BRKB), Str(<<46>>)}

\* ticker values: "BRK.B", "BRKB", 7
RerunTickers == {Str(<<66, 82, 75, 46, 66>>), Str(BRKB), Num(7)}

\* rows that differ in the ticker
CanonRows ==
    [ticker : CanonTickers, title : {Str(<<65>>)}, date : {Str(D2023)},
     transcript : {Str(<<84>>)}, text : {Absent}, content : {Absent}]

\* rows that differ in the ticker's file name and in the date
FileRows ==
    [ticker : FileTickers, title : {Str(<<65>>)}, date : {Str(D2023), Str(D2024)},
     transcript : {Str(<<84>>)}, text : {Absent}, content : {Absent}]

\* the same, with a ticker that makes its partition fail
RerunRows ==
    [ticker : RerunTickers, title : {Str(<<65>>)}, date : {Str(D2023), Str(D2024)},
     transcript : {Str(<<84>>)}, text : {Absent}, content : {Absent}]

\* rows of "AAPL" that differ in the date (a str, or None), one more that
\* differs in the transcript, and rows of "." that differ in the date
DateRows ==
    [ticker : {Str(AAPL)}, title : {Str(<<65>>)},
     date : {Str(D2022), Str(D2023), Str(D2024), None},
     transcript : {Str(<<84>>)}, text : {Absent}, content : {Absent}]
    \cup
    [ticker : {Str(AAPL)}, title : {Str(<<65>>)}, date : {Str(D2023)},
     transcript : {Str(<<88>>)}, text : {Absent}, content : {Absent}]
    \cup
    [ticker : {Str(<<46>>)}, title : {Str(<<65>>)}, date : {Str(D2023), Str(D2024)},
     transcript : {Str(<<84>>)}, text : {Absent}, content : {Absent}]

\* rows that differ in the three content fields
ContentRows ==
    [ticker : {Str(AAPL)}, title : {Absent}, date : {Absent},
     transcript : {Absent, None, Str(<<>>), Str(<<84>>)},
     text : {Absent, None, Str(<<>>), Str(<<88>>)},
     content : {Absent, None, Str(<<>>), Str(<<67>>)}]

\* the sequences over S of length at most n
SeqsUpTo(S, n) == UNION {[1..k -> S] : k \in 0..n}

RECURSIVE SumLen(_, _)
SumLen(f, n) == IF n = 0 THEN 0 ELSE Len(f[n].rows) + SumLen(f, n - 1)

\* rows the partitions have served so far
RowsServed == SumLen(parts, NumFiles)

\* a file an earlier run on other data left: one "BRKB" record dated 2022-11-30
StaleDoc ==
    JsonDump(<<Transcript([ticker |-> Str(BRKB), title |-> Str(<<65>>),
                           date |-> Str(D2022), transcript |-> Str(<<84>>),
                           text |-> Absent, content |-> Absent], BRKB)>>)
NoFiles == [p \in {} |-> StaleDoc]

-----------------------------------------------------------------------------
(* process_and_save *)

Line(msg, arg) == [msg |-> msg, arg |-> arg]

Start ==
    /\ pc = "start"
    /\ run = 1
    /\ fi = 1
    /\ df = <<>>
    /\ ri = 0
    /\ transcript_registry = <<>>
    /\ total_count = 0
    /\ wi = 0
    /\ out = <<>>
    /\ parts = [f \in 1..NumFiles |-> [served |-> "none", rows |-> <<>>]]
    /\ regAtLoad = <<>>
    /\ totalAtLoad = 0
    /\ regAtSave = <<>>
    /\ disk1 = NoFiles

\* the output directory is empty, or absent, when the script starts
Init == Start /\ disk = NoFiles /\ disk0 = disk

\* the output directory may hold a file from earlier
InitStale ==
    /\ Start
    /\ disk \in {NoFiles, WriteFile(NoFiles, FilePath(BRKB), StaleDoc)}
    /\ disk0 = disk

\* os.makedirs(OUTPUT_DIR, exist_ok=True) returns
Makedirs ==
    /\ pc = "start"
    /\ pc' = "fetch"
    /\ UNCHANGED <<run, fi, df, ri, transcript_registry, total_count, wi, disk, out,
                   parts, regAtLoad, totalAtLoad, regAtSave, disk1, disk0>>

\* os.makedirs raises: nothing catches it
MakedirsFail ==
    /\ pc = "start"
    /\ pc' = "crashed"
    /\ UNCHANGED <<run, fi, df, ri, transcript_registry, total_count, wi, disk, out,
                   parts, regAtLoad, totalAtLoad, regAtSave, disk1, disk0>>

\* pl.read_parquet(url) and df.to_dicts() return the partition's rows
LoadOk(Rows, maxRows) ==
    /\ pc = "fetch"
    /\ fi <= NumFiles
    /\ \E rows \in IF run = 1 THEN SeqsUpTo(Rows, maxRows - RowsServed)
                   ELSE {parts[fi].rows} :
          /\ run = 2 => parts[fi].served = "rows"
          /\ df' = rows
          /\ parts' = [parts EXCEPT ![fi] = [served |-> "rows", rows |-> rows]]
          /\ out' = out \o <<Line("Loading", fi), Line("Loaded", Len(rows))>>
    /\ ri' = 0
    /\ regAtLoad' = transcript_registry
    /\ totalAtLoad' = total_count
    /\ pc' = "rows"
    /\ UNCHANGED <<run, fi, transcript_registry, total_count, wi, disk, regAtSave,
                   disk1, disk0>>

\* pl.read_parquet(url) raises: the except clause prints the error line
LoadFail ==
    /\ pc = "fetch"
    /\ fi <= NumFiles
    /\ IF run = 1 THEN TRUE ELSE parts[fi].served = "error"
    /\ parts' = [parts EXCEPT ![fi] = [served |-> "error", rows |-> <<>>]]
    /\ out' = out \o <<Line("Loading", fi), Line("Error", fi)>>
    /\ fi' = fi + 1
    /\ regAtLoad' = transcript_registry
    /\ totalAtLoad' = total_count
    /\ UNCHANGED <<pc, run, df, ri, transcript_registry, total_count, wi, disk,
                   regAtSave, disk1, disk0>>

\* one iteration of "for row in rows"
ProcessRow ==
    /\ pc = "rows"
    /\ ri < Len(df)
    /\ LET r == RowStep(transcript_registry, total_count, df[ri + 1]) IN
       IF r.raised
       THEN /\ out' = Append(out, Line("Error", fi))
            /\ fi' = fi + 1
            /\ pc' = "fetch"
            /\ df' = <<>>
            /\ ri' = 0
            /\ UNCHANGED <<transcript_registry, total_count>>
       ELSE /\ transcript_registry' = r.reg
            /\ total_count' = r.total
            /\ ri' = ri + 1
            /\ UNCHANGED <<pc, fi, df, out>>
    /\ UNCHANGED <<run, wi, disk, parts, regAtLoad, totalAtLoad, regAtSave, disk1, disk0>>

\* the row loop ends: on to the next file
EndRows ==
    /\ pc = "rows"
    /\ ri = Len(df)
    /\ fi' = fi + 1
    /\ pc' = "fetch"
    /\ df' = <<>>
    /\ ri' = 0
    /\ UNCHANGED <<run, transcript_registry, total_count, wi, disk, out, parts,
                   regAtLoad, totalAtLoad, regAtSave, disk1, disk0>>

\* the two summary lines and "Saving to JSON..."
Summary ==
    /\ pc = "fetch"
    /\ fi > NumFiles
    /\ out' = out \o <<Line("Total", total_count),
                       Line("Unique", Len(transcript_registry)),
                       Line("Saving", 0)>>
    /\ wi' = 0
    /\ regAtSave' = transcript_registry
    /\ pc' = "save"
    /\ UNCHANGED <<run, fi, df, ri, transcript_registry, total_count, disk, parts,
                   regAtLoad, totalAtLoad, disk1, disk0>>

\* one iteration of "for ticker, transcripts in transcript_registry.items()"
SaveTicker ==
    /\ pc = "save"
    /\ wi < Len(transcript_registry)
    /\ LET item == transcript_registry[wi + 1]
           safe_ticker == SafeTicker(item.k)
           sorted == SortByDateDesc(item.v)
       IN IF safe_ticker = <<>>
          THEN UNCHANGED <<transcript_registry, disk>>
          ELSE /\ transcript_registry' = [transcript_registry EXCEPT ![wi + 1].v = sorted]
               /\ disk' = WriteFile(disk, FilePath(safe_ticker), JsonDump(sorted))
    /\ wi' = wi + 1
    /\ UNCHANGED <<pc, run, fi, df, ri, total_count, out, parts, regAtLoad,
                   totalAtLoad, regAtSave, disk1, disk0>>

\* open() or json.dump raises for the ticker at hand: nothing catches it.  The
\* file is untouched when open() raised, cut short when the dump raised.
SaveFail ==
    /\ pc = "save"
    /\ wi < Len(transcript_registry)
    /\ LET item == transcript_registry[wi + 1]
           safe_ticker == SafeTicker(item.k)
           sorted == SortByDateDesc(item.v)
       IN /\ safe_ticker # <<>>
          /\ transcript_registry' = [transcript_registry EXCEPT ![wi + 1].v = sorted]
          /\ \/ disk' = disk
             \/ \E n \in 0..(Len(sorted) - 1) :
                   disk' = WriteFile(disk, FilePath(safe_ticker), Truncated(sorted, n))
    /\ pc' = "crashed"
    /\ UNCHANGED <<run, fi, df, ri, total_count, wi, out, parts, regAtLoad,
                   totalAtLoad, regAtSave, disk1, disk0>>

\* print("Done!")
Finish ==
    /\ pc = "save"
    /\ wi = Len(transcript_registry)
    /\ out' = Append(out, Line("Done", 0))
    /\ pc' = "done"
    /\ disk1' = IF run = 1 THEN disk ELSE disk1
    /\ UNCHANGED <<run, fi, df, ri, transcript_registry, total_count, wi, disk,
                   parts, regAtLoad, totalAtLoad, regAtSave, disk0>>

\* the script is invoked again, on the same partitions and the same directory
Rerun ==
    /\ pc = "done"
    /\ run = 1
    /\ run' = 2
    /\ pc' = "start"
    /\ fi' = 1
    /\ df' = <<>>
    /\ ri' = 0
    /\ transcript_registry' = <<>>
    /\ total_count' = 0
    /\ wi' = 0
    /\ out' = <<>>
    /\ regAtLoad' = <<>>
    /\ totalAtLoad' = 0
    /\ regAtSave' = <<>>
    /\ UNCHANGED <<disk, parts, disk1, disk0>>

Pipeline(Rows, maxRows) ==
    \/ Makedirs
    \/ MakedirsFail
    \/ LoadOk(Rows, maxRows)
    \/ LoadFail
    \/ ProcessRow
    \/ EndRows
    \/ Summary
    \/ SaveTicker
    \/ SaveFail
    \/ Finish

Next == Pipeline(CanonRows, MaxRows)
NextFiles == Pipeline(FileRows, MaxRows)
NextDates == Pipeline(DateRows, MaxRows)
NextContent == Pipeline(ContentRows, MaxContentRows)
NextRerun == Pipeline(RerunRows, MaxRows) \/ Rerun

Spec == Init /\ [][Next]_vars
SpecFiles == Init /\ [][NextFiles]_vars
SpecDates == Init /\ [][NextDates]_vars
SpecContent == Init /\ [][NextContent]_vars
SpecRerun == InitStale /\ [][NextRerun]_vars

-----------------------------------------------------------------------------
(* Vocabulary of the properties *)

\* an error line naming partition f was printed
Failed(f) == \E i \in 1..Len(out) : out[i] = Line("Error", f)

\* the except clause has just caught partition f's failure
Caught(f) ==
    /\ pc = "fetch"
    /\ fi = f + 1
    /\ out # <<>>
    /\ out[Len(out)] = Line("Error", f)

\* the try block of partition f has just ended without an exception
Succeeded(f) ==
    /\ pc = "fetch"
    /\ fi = f + 1
    /\ parts[f].served = "rows"
    /\ ~Failed(f)

\* the ticker of the row is a non-empty string
HasTicker(row) == row.ticker.t = "str" /\ row.ticker.v # <<>>

\* the records of those rows whose ticker is a non-empty string with key k
RECURSIVE RecordsFor(_, _)
RecordsFor(rows, k) ==
    IF rows = <<>> THEN <<>>
    ELSE LET row == Head(rows) IN
         (IF HasTicker(row) /\ Canon(row.ticker.v) = k
          THEN <<Transcript(row, k)>> ELSE <<>>) \o RecordsFor(Tail(rows), k)

\* the rows of the partitions 1..n that printed no error line, in order
RECURSIVE GoodRows(_)
GoodRows(n) ==
    IF n = 0 THEN <<>>
    ELSE GoodRows(n - 1) \o (IF Failed(n) THEN <<>> ELSE parts[n].rows)

RowKeys(rows) ==
    {Canon(rows[i].ticker.v) :
        i \in {j \in 1..Len(rows) : HasTicker(rows[j])}}

\* the registry holds exactly the records of rows, on top of base
HoldsExactly(reg, base, rows) ==
    /\ Keys(reg) = Keys(base) \cup RowKeys(rows)
    /\ \A k \in Keys(reg) : Lookup(reg, k) = Lookup(base, k) \o RecordsFor(rows, k)

RECURSIVE SumLens(_)
SumLens(reg) == IF reg = <<>> THEN 0 ELSE Len(Head(reg).v) + SumLens(Tail(reg))

NumWithTicker(rows) == Cardinality({i \in 1..Len(rows) : HasTicker(rows[i])})

-----------------------------------------------------------------------------
(* C1 *)

\* C1: once the failure of a partition is caught, the registry and the counter
\* hold the contribution of every row of that partition (a row whose ticker is
\* no string has none) or of none of them.
PartitionAllOrNothing ==
    \A f \in 1..NumFiles :
        Caught(f) =>
            \/ /\ transcript_registry = regAtLoad
               /\ total_count = totalAtLoad
            \/ /\ HoldsExactly(transcript_registry, regAtLoad, parts[f].rows)
               /\ total_count = totalAtLoad + NumWithTicker(parts[f].rows)

-----------------------------------------------------------------------------
(* C2 *)

\* the Loading lines, in the order printed
LoadingLines == SelectSeq(out, LAMBDA l : l.msg = "Loading")

ErrorLinesFor(f) == Cardinality({i \in 1..Len(out) : out[i] = Line("Error", f)})

\* C2: when the summary is printed every partition was attempted once, in list
\* order, each failed partition has one error line, and the registry and the
\* two counts reflect exactly the rows of the partitions that did not fail.
SkipAndContinue ==
    pc = "save" =>
        /\ LoadingLines = [f \in 1..NumFiles |-> Line("Loading", f)]
        /\ \A f \in 1..NumFiles : ErrorLinesFor(f) <= 1
        /\ \A f \in 1..NumFiles : parts[f].served = "error" => Failed(f)
        /\ HoldsExactly(regAtSave, <<>>, GoodRows(NumFiles))
        /\ \E i \in 1..Len(out) :
              out[i] = Line("Total", NumWithTicker(GoodRows(NumFiles)))
        /\ \E i \in 1..Len(out) :
              out[i] = Line("Unique", Cardinality(RowKeys(GoodRows(NumFiles))))

-----------------------------------------------------------------------------
(* C4 *)

-----------------------------------------------------------------------------
(* C5 *)

\* the ticker is a string that is not empty once trimmed
HasTrimmedTicker(row) == row.ticker.t = "str" /\ strip(row.ticker.v) # <<>>

\* C5: every registry key is a non-empty string equal to its own uppercased,
\* trimmed form, every record has its key as ticker, and a row whose ticker is
\* absent, null or empty (also once trimmed) adds no record and no count.
KeysCanonical ==
    /\ \A i \in 1..Len(transcript_registry) :
          LET item == transcript_registry[i] IN
          /\ item.k # <<>>
          /\ Canon(item.k) = item.k
          /\ \A j \in 1..Len(item.v) : item.v[j].ticker = Str(item.k)
    /\ pc = "rows" =>
          total_count = totalAtLoad
             + Cardinality({i \in 1..ri : HasTrimmedTicker(df[i])})

-----------------------------------------------------------------------------
(* C9 *)

\* C9: the counter equals the sum of the lengths of the registry's lists after
\* every row, and the summary prints that sum and the number of keys.
CounterConsistent ==
    /\ total_count = SumLens(transcript_registry)
    /\ pc \in {"save", "done"} =>
          /\ \E i \in 1..Len(out) :
                out[i] = Line("Total", SumLens(transcript_registry))
          /\ \E i \in 1..Len(out) :
                out[i] = Line("Unique", Cardinality(Keys(transcript_registry)))

\* the summary is printed after a partition failed part-way and a row was dropped
CounterConsistentWitness ==
    /\ pc = "save"
    /\ total_count = 1
    /\ \E f \in 1..NumFiles :
          /\ Failed(f)
          /\ parts[f].served = "rows"
          /\ Len(parts[f].rows) >= 2
          /\ HasTicker(parts[f].rows[1])
    /\ \E f \in 1..NumFiles :
          /\ ~Failed(f)
          /\ \E i \in 1..Len(parts[f].rows) : ~Truthy(parts[f].rows[i].ticker)

-----------------------------------------------------------------------------
(* C3 *)

\* the output path of the registry's i-th ticker
PathOf(i) == FilePath(SafeTicker(transcript_registry[i].k))

Written(i) == SafeTicker(transcript_registry[i].k) # <<>>

\* C3: after a write phase that completes, two different tickers with a
\* non-empty cleaned name have different paths, the file at each one's path
\* holds exactly its list, and a ticker with an empty cleaned name has no file.
DistinctLocations ==
    pc = "done" =>
        \A i \in 1..Len(transcript_registry) :
            IF Written(i)
            THEN /\ \A j \in 1..Len(transcript_registry) :
                       (j # i /\ Written(j)) => PathOf(j) # PathOf(i)
                 /\ PathOf(i) \in DOMAIN disk
                 /\ disk[PathOf(i)] = JsonDump(transcript_registry[i].v)
            ELSE PathOf(i) \notin DOMAIN disk

-----------------------------------------------------------------------------
(* C10 *)

\* the save loop was entered
Saving == \E i \in 1..Len(out) : out[i].msg = "Saving"

\* C10: when a write fails the run ends at that ticker without the completion
\* message, the files of the tickers written before it hold their complete
\* lists, and no later ticker is written.
WriteFailureAborts ==
    (pc = "crashed" /\ Saving) =>
        /\ \A i \in 1..Len(out) : out[i].msg # "Done"
        /\ ~ENABLED NextFiles
        /\ \A i \in 1..wi :
              Written(i) =>
                  /\ PathOf(i) \in DOMAIN disk
                  /\ disk[PathOf(i)] = JsonDump(transcript_registry[i].v)
        /\ \A i \in (wi + 2)..Len(transcript_registry) :
              (\A j \in 1..(wi + 1) : PathOf(j) # PathOf(i)) =>
                  PathOf(i) \notin DOMAIN disk

-----------------------------------------------------------------------------
(* C7 *)

\* each record's date is >= the next one's, as strings
DateDescending(l) == \A i \in 1..(Len(l) - 1) : ~StrLess(l[i].date.v, l[i + 1].date.v)

Occurrences(l, x) == Cardinality({i \in 1..Len(l) : l[i] = x})

Permutation(a, b) ==
    /\ Len(a) = Len(b)
    /\ \A i \in 1..Len(a) : Occurrences(a, a[i]) = Occurrences(b, a[i])

\* C7 as stated: after a write phase that completes, the list of every
\* registry ticker is in date-descending order and is a permutation of the
\* list it was before the write phase.
AllSortedAfterSave ==
    pc = "done" =>
        /\ Len(transcript_registry) = Len(regAtSave)
        /\ \A i \in 1..Len(transcript_registry) :
              /\ transcript_registry[i].k = regAtSave[i].k
              /\ DateDescending(transcript_registry[i].v)
              /\ Permutation(transcript_registry[i].v, regAtSave[i].v)

\* C7 as amended: the same, the order being claimed only for the tickers whose
\* cleaned name is not empty.
WrittenSortedAfterSave ==
    pc = "done" =>
        /\ Len(transcript_registry) = Len(regAtSave)
        /\ \A i \in 1..Len(transcript_registry) :
              /\ transcript_registry[i].k = regAtSave[i].k
              /\ Written(i) => DateDescending(transcript_registry[i].v)
              /\ Permutation(transcript_registry[i].v, regAtSave[i].v)

\* the save loop has reordered the three dates of the example
WrittenSortedWitness ==
    /\ pc = "done"
    /\ \E i \in 1..Len(transcript_registry) :
          /\ Written(i)
          /\ [j \in 1..Len(regAtSave[i].v) |-> regAtSave[i].v[j].date.v]
                = <<D2023, D2024, D2022>>
          /\ [j \in 1..Len(transcript_registry[i].v) |->
                transcript_registry[i].v[j].date.v] = <<D2024, D2023, D2022>>

-----------------------------------------------------------------------------
(* C6 *)

NonEmpty(x) == x.t = "str" /\ x.v # <<>>

\* the first non-empty value among transcript, text, content, else ""
FirstNonEmpty(row) ==
    IF NonEmpty(row.transcript) THEN row.transcript
    ELSE IF NonEmpty(row.text) THEN row.text
    ELSE IF NonEmpty(row.content) THEN row.content
    ELSE Str(<<>>)

\* the record the row loop appended last
LastRecord ==
    LET k == Canon(df[ri].ticker.v)
        l == Lookup(transcript_registry, k)
    IN l[Len(l)]

\* C6: the content of the record of a row is the first non-empty value among
\* transcript, text and content, the empty string when there is none, and so
\* always a string.
ContentFirstNonEmpty ==
    (pc = "rows" /\ ri > 0 /\ HasTicker(df[ri])) =>
        /\ LastRecord.content = FirstNonEmpty(df[ri])
        /\ LastRecord.content.t = "str"

-----------------------------------------------------------------------------
(* C8 *)

\* the last registry ticker whose file is at the path of the i-th
LastAtPath(i) ==
    CHOOSE j \in 1..Len(transcript_registry) :
        /\ Written(j)
        /\ PathOf(j) = PathOf(i)
        /\ \A m \in (j + 1)..Len(transcript_registry) :
              Written(m) => PathOf(m) # PathOf(i)

\* C8: a completed second run on the same partitions leaves exactly the files
\* and contents the first run left, and after either run a written file holds
\* the list written to it last and nothing of what the path held before.
RerunIdempotent ==
    /\ (run = 2 /\ pc = "done") => disk = disk1
    /\ pc = "done" =>
          /\ \A i \in 1..Len(transcript_registry) :
                Written(i) =>
                    /\ PathOf(i) \in DOMAIN disk
                    /\ disk[PathOf(i)]
                         = JsonDump(transcript_registry[LastAtPath(i)].v)
          /\ \A p \in DOMAIN disk :
                (\A i \in 1..Len(transcript_registry) : Written(i) => PathOf(i) # p) =>
                    (p \in DOMAIN disk0 /\ disk[p] = disk0[p])

\* the second run is complete, a partition failed part-way in both runs, and
\* the file found at the start was written over
RerunIdempotentWitness ==
    /\ run = 2
    /\ pc = "done"
    /\ FilePath(BRKB) \in DOMAIN disk0
    /\ disk[FilePath(BRKB)] # disk0[FilePath(BRKB)]
    /\ Len(disk[FilePath(BRKB)].items) = 2
    /\ \E f \in 1..NumFiles : Failed(f) /\ parts[f].served = "rows"

====
